---- MODULE Spec2Model ----
(***************************************************************************)
(* Model of the two route handlers of the molecule API and of the string   *)
(* functions they rely on:                                                 *)
(*   POST /api/molecule/resolve  - catalog, OPSIN, CIR, mock fallback      *)
(*   GET  /api/molecule/sdf      - structure file proxy                    *)
(* Both live in src/frontend/src/app/api/molecule/resolve/route.ts.        *)
(*                                                                         *)
(* Representation.  Every JavaScript value that a handler touches is       *)
(* written as a TLA+ string: a JS string is itself, a JSON number is its   *)
(* JSON text ("4091", "129.16"), and the values undefined and null are the *)
(* reserved strings Undefined and Null.  An unpaired UTF-16 surrogate,     *)
(* for which encodeURIComponent throws URIError, is written "^".           *)
(***************************************************************************)
EXTENDS Integers, Sequences, FiniteSets, TLC

Undefined == "<undefined>"
Null == "<null>"
NonString == "<non-string>"
LoneSurrogate == "^"

(***************************************************************************)
(* String functions of the JavaScript runtime, computed character by       *)
(* character.                                                              *)
(***************************************************************************)
WhiteSpace == {" ", "\t", "\n", "\r"}

CharAt(s, i) == SubSeq(s, i, i)

RECURSIVE TrimStart(_)
TrimStart(s) ==
    IF Len(s) = 0 THEN s
    ELSE IF CharAt(s, 1) \in WhiteSpace THEN TrimStart(SubSeq(s, 2, Len(s)))
    ELSE s

RECURSIVE TrimEnd(_)
TrimEnd(s) ==
    IF Len(s) = 0 THEN s
    ELSE IF CharAt(s, Len(s)) \in WhiteSpace THEN TrimEnd(SubSeq(s, 1, Len(s) - 1))
    ELSE s

\* String.prototype.trim
Trim(s) == TrimEnd(TrimStart(s))

UpperCase == "ABCDEFGHIJKLMNOPQRSTUVWXYZ"
LowerCase == "abcdefghijklmnopqrstuvwxyz"

LowerChar(c) ==
    IF \E i \in 1..Len(UpperCase) : CharAt(UpperCase, i) = c
    THEN CharAt(LowerCase, CHOOSE i \in 1..Len(UpperCase) : CharAt(UpperCase, i) = c)
    ELSE c

\* String.prototype.toLowerCase
RECURSIVE ToLowerCase(_)
ToLowerCase(s) ==
    IF Len(s) = 0 THEN s
    ELSE LowerChar(CharAt(s, 1)) \o ToLowerCase(SubSeq(s, 2, Len(s)))

\* String.prototype.includes
Includes(s, t) ==
    \E i \in 1..(Len(s) - Len(t) + 1) : SubSeq(s, i, i + Len(t) - 1) = t

\* The characters encodeURIComponent escapes, among those the model uses;
\* letters, digits and - _ . ! ~ * ' ( ) are left as they are.
PercentEscape ==
    (" " :> "%20") @@ ("\n" :> "%0A") @@ ("\t" :> "%09") @@ ("\r" :> "%0D") @@
    ("=" :> "%3D") @@ ("@" :> "%40") @@ ("[" :> "%5B") @@ ("]" :> "%5D") @@
    ("/" :> "%2F") @@ ("+" :> "%2B") @@ ("#" :> "%23") @@ ("," :> "%2C") @@
    (":" :> "%3A") @@ ("?" :> "%3F") @@ ("&" :> "%26") @@ ("<" :> "%3C") @@
    (">" :> "%3E") @@ ("{" :> "%7B") @@ ("}" :> "%7D") @@ ("%" :> "%25")

\* encodeURIComponent throws URIError on an unpaired surrogate
EncodeThrows(s) == \E i \in 1..Len(s) : CharAt(s, i) = LoneSurrogate

RECURSIVE EncodeURIComponent(_)
EncodeURIComponent(s) ==
    IF Len(s) = 0 THEN s
    ELSE (IF CharAt(s, 1) \in DOMAIN PercentEscape
          THEN PercentEscape[CharAt(s, 1)]
          ELSE CharAt(s, 1)) \o EncodeURIComponent(SubSeq(s, 2, Len(s)))

\* Truthy that tests for absence only, so that "" counts as present
Truthy_EmptyIsPresent(v) == v \notin {Undefined, Null}

\* ToBoolean of a string-or-absent value: undefined, null and "" are falsy
Truthy(v) == v \notin {Undefined, Null, ""}

\* Response.ok
IsOk(status) == status \in 200..299

(***************************************************************************)
(* JSON objects of the resolve route.  A field holding Undefined is a      *)
(* property that is absent from the serialized JSON.                       *)
(***************************************************************************)
EmptyObject ==
    [source |-> Undefined, name |-> Undefined, cid |-> Undefined,
     smiles |-> Undefined, inchi |-> Undefined, sdf3d_url |-> Undefined,
     molecular_formula |-> Undefined, molecular_weight |-> Undefined,
     error |-> Undefined]

COMPOUND_NAME_MAPPINGS ==
    ("Metformin" :> "metformin") @@
    ("Nefazodone" :> "nefazodone") @@
    ("Troglitazone" :> "troglitazone") @@
    ("Aspirin" :> "aspirin") @@
    ("Atorvastatin" :> "atorvastatin") @@
    ("Lisinopril" :> "lisinopril") @@
    ("Ketoconazole" :> "ketoconazole") @@
    ("Diclofenac" :> "diclofenac") @@
    ("Amiodarone" :> "amiodarone") @@
    ("Warfarin" :> "warfarin") @@
    ("Phenytoin" :> "phenytoin") @@
    ("Carbamazepine" :> "carbamazepine") @@
    ("Valproic Acid" :> "valproic acid") @@
    ("Ibuprofen" :> "ibuprofen") @@
    ("Acetaminophen" :> "acetaminophen") @@
    ("Simvastatin" :> "simvastatin") @@
    ("Lovastatin" :> "lovastatin") @@
    ("Pravastatin" :> "pravastatin") @@
    ("Rosuvastatin" :> "rosuvastatin") @@
    ("Fluvastatin" :> "fluvastatin")

knownCompounds ==
    ("Metformin" :> [source |-> "pubchem", name |-> "Metformin", cid |-> "4091",
        smiles |-> "CN(C)C(=N)NC(=N)N",
        inchi |-> "InChI=1S/C4H11N5/c1-9(2)4(7)8-3(5)6/h1-2H3,(H5,5,6,7,8)",
        sdf3d_url |-> "/api/molecule/sdf?cid=4091",
        molecular_formula |-> "C4H11N5", molecular_weight |-> "129.16", error |-> Undefined]) @@
    ("Aspirin" :> [source |-> "pubchem", name |-> "Aspirin", cid |-> "2244",
        smiles |-> "CC(=O)OC1=CC=CC=C1C(=O)O",
        inchi |-> "InChI=1S/C9H8O4/c1-6(10)13-8-5-3-2-4-7(8)9(11)12/h2-5H,1H3,(H,11,12)",
        sdf3d_url |-> "/api/molecule/sdf?cid=2244",
        molecular_formula |-> "C9H8O4", molecular_weight |-> "180.16", error |-> Undefined]) @@
    ("Atorvastatin" :> [source |-> "pubchem", name |-> "Atorvastatin", cid |-> "60823",
        smiles |-> "CC(C)C1=C(C(=C(N1CC[C@H](C[C@H](CC(=O)O)O)O)C2=CC=C(C=C2)F)C3=CC=CC=C3)C(=O)NC4=CC=CC=C4",
        inchi |-> "InChI=1S/C33H35FN2O5/c1-21(2)31-30(33(41)35-25-11-7-4-8-12-25)29(23-9-5-3-6-10-23)32(22-13-15-24(34)16-14-22)36(31)18-17-26(37)19-27(38)20-28(39)40/h3-16,21,26-27,37-38H,17-20H2,1-2H3,(H,35,41)(H,39,40)/t26-,27-/m1/s1",
        sdf3d_url |-> "/api/molecule/sdf?cid=60823",
        molecular_formula |-> "C33H35FN2O5", molecular_weight |-> "558.64", error |-> Undefined]) @@
    ("Nefazodone" :> [source |-> "pubchem", name |-> "Nefazodone", cid |-> "4449",
        smiles |-> "CCN1CCN(CC1)C2=CC=C(C=C2)OCC3=CC=CC=C3C(=O)N4CCN(CC4)C5=NC=CC=N5",
        inchi |-> "InChI=1S/C25H32ClN5O2/c1-2-29-13-17-31(18-14-29)22-7-9-23(10-8-22)33-19-21-5-3-4-6-24(21)25(32)30-15-11-28(12-16-30)26-20-27/h3-10,20H,2,11-19H2,1H3",
        sdf3d_url |-> "/api/molecule/sdf?cid=4449",
        molecular_formula |-> "C25H32ClN5O2", molecular_weight |-> "470.01", error |-> Undefined]) @@
    ("Troglitazone" :> [source |-> "pubchem", name |-> "Troglitazone", cid |-> "5591",
        smiles |-> "CC1=C(C(=C(C=C1)O)CC2C(=O)NC(=O)S2)C3CCC(CC3)(C)C",
        inchi |-> "InChI=1S/C24H27NO5S/c1-14-11-17(26)16(12-18-20(27)25-21(28)31-18)15(14)19-7-9-24(2,3)10-8-19/h11-12,18-19,26H,7-10H2,1-3H3,(H,25,27,28)/t18-/m1/s1",
        sdf3d_url |-> "/api/molecule/sdf?cid=5591",
        molecular_formula |-> "C24H27NO5S", molecular_weight |-> "441.54", error |-> Undefined]) @@
    ("Lisinopril" :> [source |-> "pubchem", name |-> "Lisinopril", cid |-> "5362119",
        smiles |-> "CCCCN1CCCC1C(=O)N[C@@H](CCc2ccccc2)C(=O)N3CCC[C@H]3C(=O)O",
        inchi |-> "InChI=1S/C21H31N3O5/c1-2-3-12-24-13-7-11-18(24)20(26)22-16(14-15-8-5-4-6-9-15)19(25)23-17-10-7-13-24(17)21(27)28/h4-6,8-9,16-18H,2-3,7,10-14H2,1H3,(H,22,26)(H,23,25)(H,27,28)/t16-,17-,18+/m0/s1",
        sdf3d_url |-> "/api/molecule/sdf?cid=5362119",
        molecular_formula |-> "C21H31N3O5", molecular_weight |-> "405.49", error |-> Undefined]) @@
    ("Orfanglipron" :> [source |-> "pubchem", name |-> "Orfanglipron", cid |-> "155903239",
        smiles |-> "CC(C)(C)OC(=O)N[C@@H](CC1=CC=CC=C1)C(=O)N[C@@H](CC2=CC=C(C=C2)F)C(=O)N[C@@H](CC(C)C)C(=O)N3CCC[C@H]3C(=O)O",
        inchi |-> "InChI=1S/C32H43FN4O7/c1-20(2)17-25(29(40)37-16-8-9-26(37)30(41)42)35-28(39)24(18-22-12-14-23(33)15-13-22)34-27(38)21(19-11-6-5-7-10-21)36-31(43)44-32(3,4)5/h5-7,10,12-15,20,24-26H,8-9,11,16-19H2,1-4H3,(H,34,38)(H,35,39)(H,36,43)(H,41,42)/t24-,25-,26-/m0/s1",
        sdf3d_url |-> "/api/molecule/sdf?cid=155903239",
        molecular_formula |-> "C32H43FN4O7", molecular_weight |-> "614.71", error |-> Undefined])


(***************************************************************************)
(* Property access on an object literal.  knownCompounds[key] and          *)
(* COMPOUND_NAME_MAPPINGS[key] read own properties first and then the      *)
(* properties every object literal inherits from Object.prototype.         *)
(***************************************************************************)
InheritedFunctions ==
    {"constructor", "toString", "valueOf", "hasOwnProperty", "isPrototypeOf",
     "propertyIsEnumerable", "toLocaleString"}

\* String(v) of an inherited value, as a template literal or
\* encodeURIComponent would see it
InheritedText(key) ==
    IF key = "__proto__" THEN "[object Object]"
    ELSE IF key = "constructor" THEN "function Object() { [native code] }"
    ELSE "function " \o key \o "() { [native code] }"

\* KnownLookup that compares the names without regard to letter case
KnownLookup_IgnoreCase(key) ==
    IF \E k \in DOMAIN knownCompounds : ToLowerCase(k) = ToLowerCase(key)
    THEN [kind |-> "own",
          entry |-> knownCompounds[CHOOSE k \in DOMAIN knownCompounds :
                                        ToLowerCase(k) = ToLowerCase(key)]]
    ELSE IF key \in InheritedFunctions
    THEN [kind |-> "function", entry |-> EmptyObject]
    ELSE IF key = "__proto__"
    THEN [kind |-> "prototype", entry |-> EmptyObject]
    ELSE [kind |-> "undefined", entry |-> EmptyObject]

\* knownCompounds[originalName]
KnownLookup(key) ==
    IF key \in DOMAIN knownCompounds
    THEN [kind |-> "own", entry |-> knownCompounds[key]]
    ELSE IF key \in InheritedFunctions
    THEN [kind |-> "function", entry |-> EmptyObject]
    ELSE IF key = "__proto__"
    THEN [kind |-> "prototype", entry |-> EmptyObject]
    ELSE [kind |-> "undefined", entry |-> EmptyObject]

\* COMPOUND_NAME_MAPPINGS[originalName] || originalName.toLowerCase()
MappedName(originalName) ==
    IF originalName \in DOMAIN COMPOUND_NAME_MAPPINGS
    THEN COMPOUND_NAME_MAPPINGS[originalName]
    ELSE IF originalName \in InheritedFunctions \cup {"__proto__"}
    THEN InheritedText(originalName)
    ELSE ToLowerCase(originalName)

(***************************************************************************)
(* Responses of the resolve route                                          *)
(***************************************************************************)
NoResponse == [status |-> 0, body |-> EmptyObject]

\* NextResponse.json(identity), status 200
JsonOk(identity) == [status |-> 200, body |-> identity]

\* the outer catch of POST
ResolveError ==
    [status |-> 500,
     body |-> [EmptyObject EXCEPT !.error = "Failed to resolve molecule"]]

\* NextResponse.json(knownCompounds[originalName]): a function value has no
\* JSON text, Response.json throws TypeError and the outer catch answers;
\* Object.prototype serializes to {}.
CatalogResponse(lookup) ==
    IF lookup.kind = "function" THEN ResolveError ELSE JsonOk(lookup.entry)

SdfBySmiles(smiles) ==
    "/api/molecule/sdf?smiles=" \o EncodeURIComponent(smiles) \o "&get3d=true"

SdfByCid(cid) == "/api/molecule/sdf?cid=" \o cid

\* the result object of the PubChem step (the step is commented out)
PubchemResult(origName, cid, properties) ==
    [source |-> "pubchem", name |-> origName, cid |-> cid,
     smiles |-> properties.IsomericSMILES, inchi |-> properties.InChI,
     sdf3d_url |-> SdfByCid(cid),
     molecular_formula |-> properties.MolecularFormula,
     molecular_weight |-> properties.MolecularWeight, error |-> Undefined]

\* OpsinResult reading the payload's inchi field instead of stdinchi
OpsinResult_FromInchi(origName, opsinData) ==
    [source |-> "opsin", name |-> origName, cid |-> Undefined,
     smiles |-> opsinData.smiles, inchi |-> opsinData.inchi,
     sdf3d_url |-> SdfBySmiles(opsinData.smiles),
     molecular_formula |-> Undefined, molecular_weight |-> Undefined,
     error |-> Undefined]

\* the result object of the OPSIN step
OpsinResult(origName, opsinData) ==
    [source |-> "opsin", name |-> origName, cid |-> Undefined,
     smiles |-> opsinData.smiles, inchi |-> opsinData.stdinchi,
     sdf3d_url |-> SdfBySmiles(opsinData.smiles),
     molecular_formula |-> Undefined, molecular_weight |-> Undefined,
     error |-> Undefined]

\* the result object of the CIR step; smiles is the response text
CirResult(origName, smiles) ==
    [source |-> "cir", name |-> origName, cid |-> Undefined,
     smiles |-> Trim(smiles), inchi |-> Undefined,
     sdf3d_url |-> SdfBySmiles(Trim(smiles)),
     molecular_formula |-> Undefined, molecular_weight |-> Undefined,
     error |-> Undefined]

mockResult(origName) ==
    [source |-> "mock", name |-> origName, cid |-> Undefined,
     smiles |-> "CCO", inchi |-> Undefined,
     sdf3d_url |-> SdfBySmiles("CCO"),
     molecular_formula |-> "C2H6O", molecular_weight |-> "46.07",
     error |-> Undefined]

opsinUrl(name) ==
    "https://opsin.ch.cam.ac.uk/opsin/" \o EncodeURIComponent(name) \o ".json"

cirUrl(name) ==
    "https://cactus.nci.nih.gov/chemical/structure/" \o EncodeURIComponent(name)
        \o "/smiles"

(***************************************************************************)
(* What the environment can hand to the resolve route                      *)
(***************************************************************************)
\* name values of the request body
NameInputs ==
    {"Metformin", "  Aspirin ", "Orfanglipron", "metformin", "Ibuprofen",
     " Valproic Acid", "ethanol\n", "constructor", "__proto__", "toString",
     "   ", "Xyz^"}

\* request bodies: not JSON at all, or JSON with a name that is a string,
\* missing, null or of another type
Bodies ==
    {[parses |-> FALSE, name |-> Undefined]} \cup
    {[parses |-> TRUE, name |-> n] :
        n \in NameInputs \cup {Undefined, Null, NonString}}

\* status codes an upstream may answer with
Statuses == {200, 204, 304, 404, 500}

NoProperties ==
    [IsomericSMILES |-> Undefined, InChI |-> Undefined,
     MolecularFormula |-> Undefined, MolecularWeight |-> Undefined]

SomeProperties ==
    [IsomericSMILES |-> "CC(C)CC1=CC=C(C=C1)C(C)C(=O)O",
     InChI |-> "InChI=1S/C13H18O2/c1-9(2)8-11-4-6-12(7-5-11)10(3)13(14)15/h4-7,9-10H,8H2,1-3H3,(H,14,15)",
     MolecularFormula |-> "C13H18O2", MolecularWeight |-> "206.28"]

\* what PubChem would answer to the name lookup and to the property lookup
PubchemAnswers ==
    {[threw |-> TRUE, status |-> 0, cid |-> Undefined, propsStatus |-> 0,
      properties |-> NoProperties],
     [threw |-> FALSE, status |-> 404, cid |-> Undefined, propsStatus |-> 0,
      properties |-> NoProperties],
     [threw |-> FALSE, status |-> 200, cid |-> "3672", propsStatus |-> 500,
      properties |-> NoProperties],
     [threw |-> FALSE, status |-> 200, cid |-> "3672", propsStatus |-> 200,
      properties |-> SomeProperties]}

NoOpsinData ==
    [json |-> "invalid", smiles |-> Undefined, stdinchi |-> Undefined,
     inchi |-> Undefined]

\* bodies of an OPSIN answer: unparsable, the JSON value null, or an object
OpsinBodies ==
    {NoOpsinData, [NoOpsinData EXCEPT !.json = "null"]} \cup
    [json : {"object"}, smiles : {Undefined, "", "CCO", "C^C"},
     stdinchi : {Undefined, "InChI=1S/C2H6O/c1-2-3/h3H,2H2,1H3"},
     inchi : {Undefined, "InChI=1/C2H6O/c1-2-3/h3H,2H2,1H3"}]

NotFetchedOpsin == [threw |-> FALSE, status |-> 0, body |-> NoOpsinData]

\* outcomes of the OPSIN fetch: it rejects, or it resolves with a status
OpsinAnswers ==
    {[threw |-> TRUE, status |-> 0, body |-> NoOpsinData]} \cup
    {[threw |-> FALSE, status |-> s, body |-> NoOpsinData] :
        s \in Statuses \ {200}} \cup
    {[threw |-> FALSE, status |-> 200, body |-> b] : b \in OpsinBodies}

\* texts of a CIR answer; response.text() decodes UTF-8, so a text never holds
\* an unpaired surrogate
CirBodies == {"", " \n", "CCO\n", " C[C@H](N)C(=O)O \n", "<h1>Page not found (404)</h1> Error"}

NotFetchedCir == [threw |-> FALSE, status |-> 0, body |-> ""]

CirAnswers ==
    {[threw |-> TRUE, status |-> 0, body |-> ""]} \cup
    {[threw |-> FALSE, status |-> s, body |-> IF s = 204 THEN "" ELSE "CCO\n"] :
        s \in Statuses \ {200}} \cup
    {[threw |-> FALSE, status |-> 200, body |-> b] : b \in CirBodies}

NoPubchemAnswer ==
    [threw |-> FALSE, status |-> 0, cid |-> Undefined, propsStatus |-> 0,
     properties |-> NoProperties]

(***************************************************************************)
(* Responses and inputs of the structure file proxy                        *)
(***************************************************************************)
NoSdfResponse ==
    [status |-> 0, contentType |-> Undefined, allowOrigin |-> Undefined,
     allowMethods |-> Undefined, allowHeaders |-> Undefined,
     body |-> Undefined, error |-> Undefined]

\* statuses for which the Response constructor refuses a body
NullBodyStatuses == {101, 103, 204, 205, 304}

\* the outer catch of GET
SdfCaught ==
    [NoSdfResponse EXCEPT !.status = 500, !.contentType = "application/json",
                          !.error = "Failed to fetch SDF data"]

\* NextResponse.json({ error }, { status }): Response.json throws RangeError
\* for a status outside 200..599 and TypeError for a null-body status, and
\* the outer catch answers instead
SdfJsonError(status, message) ==
    IF status \notin 200..599 \/ status \in NullBodyStatuses
    THEN SdfCaught
    ELSE [NoSdfResponse EXCEPT !.status = status,
                               !.contentType = "application/json",
                               !.error = message]

\* SdfSuccess that trims the file text
SdfSuccess_Trimmed(sdfData) ==
    [status |-> 200, contentType |-> "chemical/x-mdl-sdfile",
     allowOrigin |-> "*", allowMethods |-> "GET",
     allowHeaders |-> "Content-Type", body |-> Trim(sdfData), error |-> Undefined]

\* new NextResponse(sdfData, { status: 200, headers })
SdfSuccess(sdfData) ==
    [status |-> 200, contentType |-> "chemical/x-mdl-sdfile",
     allowOrigin |-> "*", allowMethods |-> "GET",
     allowHeaders |-> "Content-Type", body |-> sdfData, error |-> Undefined]

\* Response.statusText as the upstream sends it
StatusText(status) ==
    CASE status = 200 -> "OK"
      [] status = 204 -> "No Content"
      [] status = 304 -> "Not Modified"
      [] status = 404 -> "Not Found"
      [] status = 500 -> "Internal Server Error"
      [] OTHER -> ""

pubchemUrl(cid) ==
    "https://pubchem.ncbi.nlm.nih.gov/rest/pug/compound/cid/" \o cid
        \o "/record/SDF?record_type=3d"

cactusUrl(smiles, want3d) ==
    "https://cactus.nci.nih.gov/chemical/structure/"
        \o EncodeURIComponent(smiles) \o "/sdf"
        \o (IF want3d THEN "?get3d=true" ELSE "")

altUrl(smiles, want3d) ==
    "https://cactus.nci.nih.gov/chemical/structure/"
        \o EncodeURIComponent(smiles) \o "/file?format=sdf"
        \o (IF want3d THEN "&get3d=true" ELSE "")

\* searchParams.get gives null for a parameter that is absent
SdfParams ==
    [cid : {Null, "", "4091", "abc"},
     smiles : {Null, "", "CCO", "C[C@H](N)C(=O)O"},
     get3d : {Null, "true", "false"}]

NoParams == [cid |-> Null, smiles |-> Null, get3d |-> Null]

\* texts of a structure file
SdfBodies == {"mock-sdf-content", "\n  -OEChem-\n\nM  END\n$$$$\n"}

NotFetchedSdf == [threw |-> FALSE, status |-> 0, body |-> ""]

\* outcomes of an upstream fetch of the proxy: the fetch rejects (no status),
\* or it gives a status and a text, or it gives a 2xx status and reading the
\* text with response.text() rejects
SdfAnswers ==
    {[threw |-> TRUE, status |-> 0, body |-> ""]} \cup
    {[threw |-> TRUE, status |-> 200, body |-> ""]} \cup
    {[threw |-> FALSE, status |-> s, body |-> ""] : s \in Statuses \ {200}} \cup
    {[threw |-> FALSE, status |-> 200, body |-> b] : b \in SdfBodies}

(***************************************************************************)
(* State                                                                   *)
(***************************************************************************)
VARIABLES
    postPc,         \* POST: "idle", "opsin", "cir" (awaiting that fetch), "done"
    postBody,       \* POST: the request body
    originalName,   \* POST: body.name.trim()
    name,           \* POST: the name sent to the providers
    pubchem,        \* what PubChem would answer during this resolution
    opsinResponse,  \* POST: the settled OPSIN fetch
    cirResponse,    \* POST: the settled CIR fetch
    postInflight,   \* POST: fetches issued and not yet settled
    postLog,        \* POST: fetches issued by this resolution, in order
    postResponse,   \* POST: the response returned to the caller
    getPc,          \* GET: "idle", "cid", "primary", "alternate", "done"
    getParams,      \* GET: the query parameters cid, smiles, get3d
    getUpstream,    \* GET: the upstream fetches that settled, in order
    getInflight,    \* GET: fetches issued and not yet settled
    getLog,         \* GET: URLs fetched by this request, in order
    getResponse,    \* GET: the response returned to the caller
    stubs,          \* test double: the answer each provider is stubbed to give
    completed,      \* resolve calls already answered: body, response, fetches
    served          \* proxy requests already answered: parameters, response

\* the state of the browser page
VARIABLES
    window,          \* the global object: a Window in a browser, else undefined
    isRegistered,    \* the module-level flag of each registerChartJS module
    registerCount,   \* executions of ChartJS.register, per module
    chartCalls,      \* calls of the async registerChartJS: where each one is
    tableCompounds,  \* CompoundTable: the compounds prop
    sortField,       \* CompoundTable: useState('riskScore')
    sortDirection,   \* CompoundTable: useState('desc')
    compounds,       \* Home: useState([])
    selectedCompound,\* Home: useState(null)
    filters,         \* Home: useState({riskCategories, searchText})
    currentView,     \* Home: useState('table')
    loading,         \* Home: useState(true)
    sidebarOpen,     \* Home: useState(false)
    compound,        \* EnhancedReal3DModal: the compound prop, null if unmounted
    moleculeData,    \* EnhancedReal3DModal: useState(null); {} is null, else {data}
    modalLoading,    \* EnhancedReal3DModal: its loading state
    resolveRequests  \* EnhancedReal3DModal: resolve requests not yet settled

postVars ==
    <<postPc, postBody, originalName, name, pubchem, opsinResponse,
      cirResponse, postInflight, postLog, postResponse>>

getVars == <<getPc, getParams, getUpstream, getInflight, getLog, getResponse>>

histVars == <<stubs, completed, served>>

chartVars == <<window, isRegistered, registerCount, chartCalls>>

tableVars == <<tableCompounds, sortField, sortDirection>>

homeVars ==
    <<compounds, selectedCompound, filters, currentView, loading, sidebarOpen>>

modalVars == <<compound, moleculeData, modalLoading, resolveRequests>>

uiVars == <<chartVars, tableVars, homeVars, modalVars>>

vars == <<postVars, getVars, histVars, uiVars>>

PostIdle ==
    /\ postPc = "idle"
    /\ postBody = [parses |-> FALSE, name |-> Undefined]
    /\ originalName = Undefined
    /\ name = Undefined
    /\ pubchem = NoPubchemAnswer
    /\ opsinResponse = NotFetchedOpsin
    /\ cirResponse = NotFetchedCir
    /\ postInflight = {}
    /\ postLog = <<>>
    /\ postResponse = NoResponse

GetIdle ==
    /\ getPc = "idle"
    /\ getParams = NoParams
    /\ getUpstream = <<>>
    /\ getInflight = {}
    /\ getLog = <<>>
    /\ getResponse = NoSdfResponse

\* number of earlier requests of a kind that the histories remember
MaxPrior == 1

NoStubs ==
    [pubchem |-> NoPubchemAnswer, opsin |-> NotFetchedOpsin, cir |-> NotFetchedCir]

HistIdle ==
    /\ stubs = NoStubs
    /\ completed = <<>>
    /\ served = <<>>

\* the two modules that define registerChartJS: the one that awaits the
\* dynamic import and the one that imports chart.js statically
ChartModules == {"async", "sync"}

\* number of calls of the async registerChartJS that can be in progress
MaxCalls == 3

\* the modules as loaded; no call of registerChartJS is in progress
ChartIdle ==
    /\ isRegistered = [m \in ChartModules |-> FALSE]
    /\ registerCount = [m \in ChartModules |-> 0]
    /\ chartCalls = [c \in 1..MaxCalls |-> "idle"]

\* CompoundTable before it is mounted
TableIdle ==
    /\ tableCompounds = <<>>
    /\ sortField = "riskScore"
    /\ sortDirection = "desc"

\* the initial state of Home
HomeIdle ==
    /\ compounds = <<>>
    /\ selectedCompound = Null
    /\ filters = [riskCategories |-> <<"Low", "Medium", "High">>, searchText |-> ""]
    /\ currentView = "table"
    /\ loading = TRUE
    /\ sidebarOpen = FALSE

\* EnhancedReal3DModal before it is mounted
ModalIdle ==
    /\ compound = Null
    /\ moleculeData = {}
    /\ modalLoading = TRUE
    /\ resolveRequests = <<>>

\* the server process: no window, no page
UiIdle == window = Undefined /\ ChartIdle /\ TableIdle /\ HomeIdle /\ ModalIdle

Init == PostIdle /\ GetIdle /\ HistIdle /\ UiIdle

(***************************************************************************)
(* POST /api/molecule/resolve                                              *)
(***************************************************************************)
\* return NextResponse.json(...)
Respond(resp) ==
    /\ postPc' = "done"
    /\ postResponse' = resp
    /\ postInflight' = {}

\* await fetch(url): the request is in flight until it settles
IssueFetch(provider, url) ==
    /\ postPc' = provider
    /\ postInflight' = {[provider |-> provider, url |-> url]}
    /\ postLog' = Append(postLog, [provider |-> provider, url |-> url])
    /\ postResponse' = postResponse

\* Step 3 and the mock that follows it: building the URL is inside the try
TryCir(orig, n) ==
    IF EncodeThrows(n)
    THEN Respond(JsonOk(mockResult(orig))) /\ postLog' = postLog
    ELSE IssueFetch("cir", cirUrl(n))

\* Step 2: the first step that runs after a catalog miss
TryOpsin(orig, n) ==
    IF EncodeThrows(n)
    THEN TryCir(orig, n)
    ELSE IssueFetch("opsin", opsinUrl(n))

\* the OPSIN step returns its result
OpsinSucceeds(r) ==
    /\ ~r.threw
    /\ IsOk(r.status)
    /\ r.body.json = "object"
    /\ Truthy(r.body.smiles)
    /\ ~EncodeThrows(r.body.smiles)

\* CirSucceeds without the test for a blank text
CirSucceeds_NoBlankCheck(r) ==
    /\ ~r.threw
    /\ IsOk(r.status)
    /\ Truthy(r.body)
    /\ ~Includes(r.body, "Error")
    /\ ~EncodeThrows(Trim(r.body))

\* the CIR step returns its result
CirSucceeds(r) ==
    /\ ~r.threw
    /\ IsOk(r.status)
    /\ Truthy(r.body)
    /\ Truthy(Trim(r.body))
    /\ ~Includes(r.body, "Error")
    /\ ~EncodeThrows(Trim(r.body))

\* PostStart without the catalog branch
PostStart_NoCatalog(body, answerA) ==
    /\ postPc = "idle"
    /\ postBody' = body
    /\ pubchem' = answerA
    /\ UNCHANGED <<opsinResponse, cirResponse>>
    /\ IF ~body.parses \/ body.name \in {Undefined, Null, NonString}
       THEN /\ Respond(ResolveError)
            /\ UNCHANGED <<originalName, name, postLog>>
       ELSE /\ originalName' = Trim(body.name)
            /\ name' = MappedName(Trim(body.name))
            /\ TryOpsin(Trim(body.name), MappedName(Trim(body.name)))

\* PostStart that looks the untrimmed name up in the catalog
PostStart_RawLookup(body, answerA) ==
    /\ postPc = "idle"
    /\ postBody' = body
    /\ pubchem' = answerA
    /\ UNCHANGED <<opsinResponse, cirResponse>>
    /\ IF ~body.parses \/ body.name \in {Undefined, Null, NonString}
       THEN /\ Respond(ResolveError)
            /\ UNCHANGED <<originalName, name, postLog>>
       ELSE /\ originalName' = Trim(body.name)
            /\ name' = MappedName(Trim(body.name))
            /\ IF KnownLookup(body.name).kind # "undefined"
               THEN /\ Respond(CatalogResponse(KnownLookup(body.name)))
                    /\ postLog' = postLog
               ELSE TryOpsin(Trim(body.name), MappedName(Trim(body.name)))

\* the handler from its entry to its first fetch or to its return
PostStart(body, answerA) ==
    /\ postPc = "idle"
    /\ postBody' = body
    /\ pubchem' = answerA
    /\ UNCHANGED <<opsinResponse, cirResponse>>
    /\ IF ~body.parses \/ body.name \in {Undefined, Null, NonString}
       THEN /\ Respond(ResolveError)
            /\ UNCHANGED <<originalName, name, postLog>>
       ELSE /\ originalName' = Trim(body.name)
            /\ name' = MappedName(Trim(body.name))
            /\ IF KnownLookup(Trim(body.name)).kind # "undefined"
               THEN /\ Respond(CatalogResponse(KnownLookup(Trim(body.name))))
                    /\ postLog' = postLog
               ELSE TryOpsin(Trim(body.name), MappedName(Trim(body.name)))

\* OpsinReply that asks OPSIN a second time after a failure
OpsinReply_Retry(answer) ==
    /\ postPc = "opsin"
    /\ opsinResponse' = answer
    /\ UNCHANGED <<postBody, originalName, name, pubchem, cirResponse>>
    /\ IF OpsinSucceeds(answer)
       THEN /\ Respond(JsonOk(OpsinResult(originalName, answer.body)))
            /\ postLog' = postLog
       ELSE IF Len(postLog) < 2
       THEN IssueFetch("opsin", opsinUrl(name))
       ELSE TryCir(originalName, name)

\* the OPSIN fetch settles
OpsinReply(answer) ==
    /\ postPc = "opsin"
    /\ opsinResponse' = answer
    /\ UNCHANGED <<postBody, originalName, name, pubchem, cirResponse>>
    /\ IF OpsinSucceeds(answer)
       THEN /\ Respond(JsonOk(OpsinResult(originalName, answer.body)))
            /\ postLog' = postLog
       ELSE TryCir(originalName, name)

\* CirReply without the local catch: a rejected fetch reaches the outer catch
CirReply_Uncaught(answer) ==
    /\ postPc = "cir"
    /\ cirResponse' = answer
    /\ UNCHANGED <<postBody, originalName, name, pubchem, opsinResponse, postLog>>
    /\ IF answer.threw
       THEN Respond(ResolveError)
       ELSE IF CirSucceeds(answer)
       THEN Respond(JsonOk(CirResult(originalName, answer.body)))
       ELSE Respond(JsonOk(mockResult(originalName)))

\* CirReply that gives the placeholder on the first call of the process only
\* (a module-level flag) and the error response afterwards
CirReply_FirstCallOnly(answer) ==
    /\ postPc = "cir"
    /\ cirResponse' = answer
    /\ UNCHANGED <<postBody, originalName, name, pubchem, opsinResponse, postLog>>
    /\ IF CirSucceeds(answer)
       THEN Respond(JsonOk(CirResult(originalName, answer.body)))
       ELSE IF completed = <<>>
       THEN Respond(JsonOk(mockResult(originalName)))
       ELSE Respond(ResolveError)

\* the CIR fetch settles
CirReply(answer) ==
    /\ postPc = "cir"
    /\ cirResponse' = answer
    /\ UNCHANGED <<postBody, originalName, name, pubchem, opsinResponse, postLog>>
    /\ IF CirSucceeds(answer)
       THEN Respond(JsonOk(CirResult(originalName, answer.body)))
       ELSE Respond(JsonOk(mockResult(originalName)))

\* the framework sends the response; the handler's locals are gone
PostDeliver ==
    /\ postPc = "done"
    /\ postPc' = "idle"
    /\ postBody' = [parses |-> FALSE, name |-> Undefined]
    /\ originalName' = Undefined
    /\ name' = Undefined
    /\ pubchem' = NoPubchemAnswer
    /\ opsinResponse' = NotFetchedOpsin
    /\ cirResponse' = NotFetchedCir
    /\ postInflight' = {}
    /\ postLog' = <<>>
    /\ postResponse' = NoResponse

PostNext ==
    \/ \E body \in Bodies, answerA \in PubchemAnswers : PostStart(body, answerA)
    \/ \E answer \in OpsinAnswers : OpsinReply(answer)
    \/ \E answer \in CirAnswers : CirReply(answer)
    \/ PostDeliver

(***************************************************************************)
(* GET /api/molecule/sdf                                                   *)
(***************************************************************************)
SdfRespond(resp) ==
    /\ getPc' = "done"
    /\ getResponse' = resp
    /\ getInflight' = {}

SdfFetch(pc, url) ==
    /\ getPc' = pc
    /\ getInflight' = {url}
    /\ getLog' = Append(getLog, url)
    /\ getResponse' = getResponse

\* get3d === 'true'
Want3d(params) == params.get3d = "true"

\* GetStart that tests the smiles parameter before the cid parameter
GetStart_SmilesFirst(params) ==
    /\ getPc = "idle"
    /\ getParams' = params
    /\ getUpstream' = getUpstream
    /\ IF ~Truthy(params.cid) /\ ~Truthy(params.smiles)
       THEN /\ SdfRespond(SdfJsonError(400, "cid or smiles parameter required"))
            /\ getLog' = getLog
       ELSE IF Truthy(params.smiles)
       THEN SdfFetch("primary", cactusUrl(params.smiles, Want3d(params)))
       ELSE SdfFetch("cid", pubchemUrl(params.cid))

\* GetStart that answers from a process-wide cache of structure files
GetStart_Cached(params) ==
    /\ getPc = "idle"
    /\ getParams' = params
    /\ getUpstream' = getUpstream
    /\ IF ~Truthy(params.cid) /\ ~Truthy(params.smiles)
       THEN /\ SdfRespond(SdfJsonError(400, "cid or smiles parameter required"))
            /\ getLog' = getLog
       ELSE IF \E i \in DOMAIN served :
                  served[i].params = params /\ served[i].response.status = 200
       THEN /\ SdfRespond(served[CHOOSE i \in DOMAIN served :
                  served[i].params = params /\ served[i].response.status = 200].response)
            /\ getLog' = getLog
       ELSE IF Truthy(params.cid)
       THEN SdfFetch("cid", pubchemUrl(params.cid))
       ELSE SdfFetch("primary", cactusUrl(params.smiles, Want3d(params)))

\* the handler from its entry to its first fetch or to its return
GetStart(params) ==
    /\ getPc = "idle"
    /\ getParams' = params
    /\ getUpstream' = getUpstream
    /\ IF ~Truthy(params.cid) /\ ~Truthy(params.smiles)
       THEN /\ SdfRespond(SdfJsonError(400, "cid or smiles parameter required"))
            /\ getLog' = getLog
       ELSE IF Truthy(params.cid)
       THEN SdfFetch("cid", pubchemUrl(params.cid))
       ELSE IF Truthy(params.smiles)
       THEN SdfFetch("primary", cactusUrl(params.smiles, Want3d(params)))
       ELSE /\ SdfRespond(SdfJsonError(400, "Unhandled request"))
            /\ getLog' = getLog

\* GetCidReply outside the try block: an exception leaves the handler
GetCidReply_Uncaught(answer) ==
    /\ getPc = "cid"
    /\ getUpstream' = Append(getUpstream, answer)
    /\ UNCHANGED <<getParams, getLog>>
    /\ IF answer.threw
       THEN SdfRespond(NoSdfResponse)
       ELSE IF ~IsOk(answer.status)
       THEN SdfRespond(SdfJsonError(answer.status,
                "Failed to fetch SDF: " \o StatusText(answer.status)))
       ELSE SdfRespond(SdfSuccess(answer.body))

\* the PubChem 3D record fetch settles
GetCidReply(answer) ==
    /\ getPc = "cid"
    /\ getUpstream' = Append(getUpstream, answer)
    /\ UNCHANGED <<getParams, getLog>>
    /\ IF answer.threw
       THEN SdfRespond(SdfCaught)
       ELSE IF ~IsOk(answer.status)
       THEN SdfRespond(SdfJsonError(answer.status,
                "Failed to fetch SDF: " \o StatusText(answer.status)))
       ELSE SdfRespond(SdfSuccess(answer.body))

\* the first Cactus fetch settles
GetPrimaryReply(answer) ==
    /\ getPc = "primary"
    /\ getUpstream' = Append(getUpstream, answer)
    /\ getParams' = getParams
    /\ IF answer.threw
       THEN SdfRespond(SdfCaught) /\ getLog' = getLog
       ELSE IF ~IsOk(answer.status)
       THEN SdfFetch("alternate", altUrl(getParams.smiles, Want3d(getParams)))
       ELSE SdfRespond(SdfSuccess(answer.body)) /\ getLog' = getLog

\* GetAltReply that tests the first response again instead of the second
GetAltReply_TestsPrimary(answer) ==
    /\ getPc = "alternate"
    /\ getUpstream' = Append(getUpstream, answer)
    /\ UNCHANGED <<getParams, getLog>>
    /\ IF answer.threw
       THEN SdfRespond(SdfCaught)
       ELSE IF ~IsOk(getUpstream[1].status)
       THEN SdfRespond(SdfJsonError(getUpstream[1].status,
                "Failed to fetch SDF from Cactus: " \o StatusText(getUpstream[1].status)))
       ELSE SdfRespond(SdfSuccess(answer.body))

\* the fetch of the alternate Cactus endpoint settles
GetAltReply(answer) ==
    /\ getPc = "alternate"
    /\ getUpstream' = Append(getUpstream, answer)
    /\ UNCHANGED <<getParams, getLog>>
    /\ IF answer.threw
       THEN SdfRespond(SdfCaught)
       ELSE IF ~IsOk(answer.status)
       THEN SdfRespond(SdfJsonError(answer.status,
                "Failed to fetch SDF from Cactus: " \o StatusText(answer.status)))
       ELSE SdfRespond(SdfSuccess(answer.body))

\* the framework sends the response; the handler's locals are gone
GetDeliver ==
    /\ getPc = "done"
    /\ getPc' = "idle"
    /\ getParams' = NoParams
    /\ getUpstream' = <<>>
    /\ getInflight' = {}
    /\ getLog' = <<>>
    /\ getResponse' = NoSdfResponse

GetNext ==
    \/ \E params \in SdfParams : GetStart(params)
    \/ \E answer \in SdfAnswers : GetCidReply(answer)
    \/ \E answer \in SdfAnswers : GetPrimaryReply(answer)
    \/ \E answer \in SdfAnswers : GetAltReply(answer)
    \/ GetDeliver

\* The handlers share no variable.  This specification serves one request
\* at a time: a handler starts and runs while the other one is idle.
Next ==
    \/ getPc = "idle" /\ PostNext /\ UNCHANGED <<getVars, histVars, uiVars>>
    \/ postPc = "idle" /\ GetNext /\ UNCHANGED <<postVars, histVars, uiVars>>

Spec == Init /\ [][Next]_vars

(***************************************************************************)
(* Repeated resolve calls against one stubbed provider behaviour: every    *)
(* fetch of a provider settles with the answer the stub holds for it, and  *)
(* the calls that were answered are remembered.                            *)
(***************************************************************************)
PairBodies ==
    {[parses |-> TRUE, name |-> n] :
        n \in {"Aspirin", "  Aspirin ", "ethanol", "ethanol\n",
               "constructor", "\tconstructor "}}

PairStubs ==
    [pubchem : {a \in PubchemAnswers : a.threw \/ a.propsStatus = 200},
     opsin : {a \in OpsinAnswers :
                \/ a.threw
                \/ a.status = 404
                \/ a.status = 200 /\ a.body.json = "object"
                     /\ a.body.smiles \in {Undefined, "CCO"}
                     /\ a.body.stdinchi # Undefined /\ a.body.inchi = Undefined},
     cir : {a \in CirAnswers :
                a.threw \/ (a.status = 200 /\ a.body \in {" \n", "CCO\n"})}]

InitPair ==
    /\ PostIdle /\ GetIdle /\ UiIdle
    /\ stubs \in PairStubs
    /\ completed = <<>>
    /\ served = <<>>

\* the call that is being answered joins the remembered ones
Remember ==
    completed' =
        IF Len(completed) < MaxPrior
        THEN Append(completed,
                [body |-> postBody, response |-> postResponse, log |-> postLog])
        ELSE completed

PairStart ==
    /\ \E body \in PairBodies : PostStart(body, stubs.pubchem)
    /\ UNCHANGED <<getVars, histVars, uiVars>>

PairOpsinReply ==
    OpsinReply(stubs.opsin) /\ UNCHANGED <<getVars, histVars, uiVars>>

PairCirReply ==
    CirReply(stubs.cir) /\ UNCHANGED <<getVars, histVars, uiVars>>

PairDeliver ==
    PostDeliver /\ Remember /\ UNCHANGED <<getVars, stubs, served, uiVars>>

NextPair == PairStart \/ PairOpsinReply \/ PairCirReply \/ PairDeliver

SpecPair == InitPair /\ [][NextPair]_vars

(***************************************************************************)
(* A resolve request and a proxy request in progress at the same time, in  *)
(* every interleaving of their steps; the proxy requests that were         *)
(* answered are remembered.                                                *)
(***************************************************************************)
ConcBodies == {[parses |-> TRUE, name |-> n] : n \in {"Aspirin", "ethanol"}}

ConcOpsinAnswers ==
    {a \in OpsinAnswers :
        \/ a.status = 404
        \/ a.status = 200 /\ a.body.json = "object" /\ a.body.smiles = "CCO"
             /\ a.body.stdinchi # Undefined /\ a.body.inchi = Undefined}

ConcCirAnswers ==
    {a \in CirAnswers : a.threw \/ (a.status = 200 /\ a.body = "CCO\n")}

ConcParams ==
    {p \in SdfParams :
        /\ p.get3d = "true"
        /\ \/ p.cid = "4091" /\ p.smiles = Null
           \/ p.cid = Null /\ p.smiles = "CCO"}

ConcSdfAnswers ==
    {a \in SdfAnswers : a.status = 404 \/ a.status = 200}

\* the proxy request that is being answered joins the remembered ones
RememberServed ==
    served' =
        IF Len(served) < MaxPrior
        THEN Append(served, [params |-> getParams, response |-> getResponse])
        ELSE served

ConcPost ==
    /\ \/ \E body \in ConcBodies : PostStart(body, NoPubchemAnswer)
       \/ \E answer \in ConcOpsinAnswers : OpsinReply(answer)
       \/ \E answer \in ConcCirAnswers : CirReply(answer)
       \/ PostDeliver
    /\ UNCHANGED <<getVars, histVars, uiVars>>

ConcGet ==
    /\ \/ \E params \in ConcParams : GetStart(params)
       \/ \E answer \in ConcSdfAnswers : GetCidReply(answer)
       \/ \E answer \in ConcSdfAnswers : GetPrimaryReply(answer)
       \/ \E answer \in ConcSdfAnswers : GetAltReply(answer)
    /\ UNCHANGED <<postVars, histVars, uiVars>>

ConcGetDeliver ==
    /\ GetDeliver /\ RememberServed
    /\ UNCHANGED <<postVars, stubs, completed, uiVars>>

NextConc == ConcPost \/ ConcGet \/ ConcGetDeliver

SpecConc == Init /\ [][NextConc]_vars

(***************************************************************************)
(* Properties of the resolve route                                         *)
(***************************************************************************)
PostDone == postPc = "done"

\* the request body carries a non-empty string name
HasStringName == postBody.parses /\ postBody.name \in NameInputs

DeclaredCatalogKeys ==
    {"Metformin", "Aspirin", "Atorvastatin", "Nefazodone", "Troglitazone",
     "Lisinopril", "Orfanglipron"}

ProvidersInLog == {postLog[i].provider : i \in DOMAIN postLog}

\* C1: every resolve request with a non-empty string name ends with HTTP 200
\* and an identity, whatever the providers answer.
C1_ResolveAlways200 ==
    (PostDone /\ HasStringName) =>
        (postResponse.status = 200 /\ postResponse.body.source # Undefined)

\* C2: every HTTP 200 resolution response carries a source drawn from
\* catalog, pubchem, opsin, cir, mock.
C2_SourceAlwaysSet ==
    (PostDone /\ postResponse.status = 200) =>
        postResponse.body.source \in {"catalog", "pubchem", "opsin", "cir", "mock"}

PubchemValid ==
    /\ ~pubchem.threw
    /\ pubchem.status = 200
    /\ pubchem.cid # Undefined
    /\ pubchem.propsStatus = 200
    /\ pubchem.properties.IsomericSMILES # Undefined

\* C4: for a name that is not in the catalog, when PubChem returns an id and
\* a property record the result has source pubchem with SMILES, InChI,
\* formula and weight populated, and OPSIN and CIR are not consulted.
C4_ProviderAWins ==
    (PostDone /\ HasStringName /\ Trim(postBody.name) \notin DeclaredCatalogKeys
        /\ PubchemValid) =>
        /\ postResponse.status = 200
        /\ postResponse.body.source = "pubchem"
        /\ postResponse.body.smiles = pubchem.properties.IsomericSMILES
        /\ postResponse.body.inchi = pubchem.properties.InChI
        /\ postResponse.body.molecular_formula = pubchem.properties.MolecularFormula
        /\ postResponse.body.molecular_weight = pubchem.properties.MolecularWeight
        /\ ProvidersInLog \cap {"opsin", "cir"} = {}

\* OPSIN was asked and answered 2xx with a non-empty SMILES
OpsinGaveSmiles ==
    /\ "opsin" \in ProvidersInLog
    /\ ~opsinResponse.threw
    /\ opsinResponse.status \in 200..299
    /\ opsinResponse.body.json = "object"
    /\ opsinResponse.body.smiles \notin {Undefined, ""}

\* C5 as stated: when PubChem fails with a status >= 400 and OPSIN answers
\* 2xx with a non-empty SMILES, the result has source opsin and that SMILES,
\* and InChI, formula and weight are unset.
C5_ProviderBOnlySmiles ==
    (PostDone /\ pubchem.status >= 400 /\ OpsinGaveSmiles) =>
        /\ postResponse.status = 200
        /\ postResponse.body.source = "opsin"
        /\ postResponse.body.smiles = opsinResponse.body.smiles
        /\ postResponse.body.inchi = Undefined
        /\ postResponse.body.molecular_formula = Undefined
        /\ postResponse.body.molecular_weight = Undefined

\* C5 amended: when PubChem fails with a status >= 400 and OPSIN answers 2xx
\* with a non-empty SMILES that encodeURIComponent accepts, the result has
\* source opsin, that SMILES, the echoed trimmed name, no cid, formula and
\* weight unset, and InChI equal to the stdinchi field of the OPSIN payload
\* (unset exactly when the payload has none); the payload's inchi field is
\* ignored.
C5_ProviderBSmilesAndStdinchi ==
    (PostDone /\ pubchem.status >= 400 /\ OpsinGaveSmiles
        /\ ~Includes(opsinResponse.body.smiles, LoneSurrogate)) =>
        /\ postResponse.status = 200
        /\ postResponse.body.source = "opsin"
        /\ postResponse.body.name = Trim(postBody.name)
        /\ postResponse.body.smiles = opsinResponse.body.smiles
        /\ postResponse.body.inchi = opsinResponse.body.stdinchi
        /\ postResponse.body.cid = Undefined
        /\ postResponse.body.molecular_formula = Undefined
        /\ postResponse.body.molecular_weight = Undefined
        /\ "cir" \notin ProvidersInLog

\* OPSIN resolved a name with a payload that has both stdinchi and inchi
C5_Witness ==
    /\ PostDone
    /\ pubchem.status = 404
    /\ OpsinGaveSmiles
    /\ opsinResponse.body.stdinchi # Undefined
    /\ opsinResponse.body.inchi # Undefined
    /\ postResponse.body.source = "opsin"
    /\ postResponse.body.inchi = opsinResponse.body.stdinchi

\* the OPSIN step was run and failed: transport error, non-2xx status or no
\* SMILES in the payload
OpsinFailed ==
    /\ "opsin" \in ProvidersInLog
    /\ \/ opsinResponse.threw
       \/ opsinResponse.status \notin 200..299
       \/ opsinResponse.body.json # "object"
       \/ opsinResponse.body.smiles \in {Undefined, ""}

\* the CIR step was run and failed: transport error, non-2xx status, blank
\* text or a text with the error marker
CirFailed ==
    /\ "cir" \in ProvidersInLog
    /\ \/ cirResponse.threw
       \/ cirResponse.status \notin 200..299
       \/ Trim(cirResponse.body) = ""
       \/ Includes(cirResponse.body, "Error")

\* C6: when every provider step that runs fails, the response is HTTP 200
\* with the fixed placeholder: source mock, SMILES "CCO", the same fields for
\* every name apart from the echoed name.
C6_AllFailGivesPlaceholder ==
    (PostDone /\ OpsinFailed /\ CirFailed) =>
        /\ postResponse.status = 200
        /\ postResponse.body =
              [source |-> "mock", name |-> Trim(postBody.name),
               cid |-> Undefined, smiles |-> "CCO", inchi |-> Undefined,
               sdf3d_url |-> "/api/molecule/sdf?smiles=CCO&get3d=true",
               molecular_formula |-> "C2H6O", molecular_weight |-> "46.07",
               error |-> Undefined]

\* both fetches were rejected and the placeholder was returned
C6_Witness ==
    /\ PostDone
    /\ OpsinFailed /\ opsinResponse.threw
    /\ CirFailed /\ cirResponse.threw
    /\ postResponse.body.source = "mock"

\* position of a provider in the priority order
Rank(provider) ==
    CASE provider = "pubchem" -> 1
      [] provider = "opsin" -> 2
      [] provider = "cir" -> 3

\* C7: the steps run in the order catalog, PubChem, OPSIN, CIR, placeholder:
\* a provider is asked only after every step before it has run and failed,
\* at most one provider request is in flight, and after a step has
\* succeeded no later provider is asked.
C7_FixedOrder ==
    /\ Cardinality(postInflight) <= 1
    /\ \A i \in DOMAIN postLog :
          /\ Trim(postBody.name) \notin DeclaredCatalogKeys
          /\ \A p \in {"pubchem", "opsin", "cir"} :
                Rank(p) < Rank(postLog[i].provider) =>
                    \E j \in 1..(i - 1) : postLog[j].provider = p
    /\ (PostDone /\ postResponse.body.source = "opsin") => "cir" \notin ProvidersInLog

\* C8: within one resolution no provider is asked twice, and the providers
\* are asked in priority order whatever failed before.
C8_AtMostOnceInOrder ==
    \A i, j \in DOMAIN postLog :
        i < j => Rank(postLog[i].provider) < Rank(postLog[j].provider)

\* OPSIN failed, CIR was asked next and failed too
C8_Witness ==
    /\ PostDone
    /\ Len(postLog) = 2
    /\ opsinResponse.status = 500
    /\ cirResponse.status = 404
    /\ postResponse.body.source = "mock"

(***************************************************************************)
(* Properties of the structure file proxy                                  *)
(***************************************************************************)
GetDone == getPc = "done"

\* C9: with a cid, when the PubChem 3D record endpoint answers 200 with body
\* X the proxy answers 200 with body X unmodified, content type
\* chemical/x-mdl-sdfile and cross-origin headers that allow GET only.
C9_CidPathVerbatim ==
    (GetDone /\ getParams.cid \notin {Null, ""} /\ Len(getUpstream) >= 1
        /\ ~getUpstream[1].threw /\ getUpstream[1].status = 200) =>
        /\ getLog = <<"https://pubchem.ncbi.nlm.nih.gov/rest/pug/compound/cid/"
                        \o getParams.cid \o "/record/SDF?record_type=3d">>
        /\ getResponse.status = 200
        /\ getResponse.body = getUpstream[1].body
        /\ getResponse.contentType = "chemical/x-mdl-sdfile"
        /\ getResponse.allowOrigin = "*"
        /\ getResponse.allowMethods = "GET"
        /\ getResponse.error = Undefined

\* cid=4091 was answered with a file whose text starts and ends with
\* whitespace
C9_Witness ==
    /\ GetDone
    /\ getParams.cid = "4091"
    /\ Len(getUpstream) = 1
    /\ getUpstream[1].status = 200
    /\ getUpstream[1].body # "mock-sdf-content"
    /\ getResponse.body = getUpstream[1].body

\* C10: a proxy request in which cid and smiles are both absent or empty is
\* answered with HTTP 400 and no upstream request is made.
C10_NeitherParam400 ==
    (getPc # "idle" /\ getParams.cid \in {Null, ""} /\ getParams.smiles \in {Null, ""}) =>
        /\ GetDone
        /\ getResponse.status = 400
        /\ getLog = <<>>
        /\ getInflight = {}
        /\ getUpstream = <<>>

\* a request with an empty cid and no smiles was rejected
C10_Witness ==
    /\ GetDone
    /\ getParams.cid = ""
    /\ getParams.smiles = Null
    /\ getResponse.status = 400

\* the request carries a non-empty cid / a non-empty smiles
HasCid == getParams.cid \notin {Null, ""}
HasSmiles == getParams.smiles \notin {Null, ""}

PubchemRecordUrl ==
    "https://pubchem.ncbi.nlm.nih.gov/rest/pug/compound/cid/"
        \o getParams.cid \o "/record/SDF?record_type=3d"

\* C11 as stated: a proxy request that supplies both a cid and a smiles is
\* answered with a client error and nothing is fetched from either upstream.
C11_BothRejected ==
    (GetDone /\ HasCid /\ HasSmiles) =>
        /\ getResponse.status \in 400..499
        /\ getLog = <<>>

\* C11 amended: a proxy request that supplies both a cid and a smiles is not
\* rejected.  The cid takes precedence: the only upstream request is the one
\* to the PubChem 3D record endpoint of that cid, the smiles is ignored and
\* Cactus is never asked, and a 200 answer of PubChem is returned as the
\* structure file.
C11_BothServedByCid ==
    (getPc # "idle" /\ HasCid /\ HasSmiles) =>
        /\ getLog = <<PubchemRecordUrl>>
        /\ getPc \in {"cid", "done"}
        /\ (GetDone /\ ~getUpstream[1].threw /\ getUpstream[1].status = 200) =>
              /\ getResponse.status = 200
              /\ getResponse.body = getUpstream[1].body
              /\ getResponse.contentType = "chemical/x-mdl-sdfile"

\* cid=4091 and smiles=CCO were both given and the PubChem file was returned
C11_Witness ==
    /\ GetDone
    /\ getParams.cid = "4091"
    /\ getParams.smiles = "CCO"
    /\ getResponse.status = 200
    /\ getResponse.body = "mock-sdf-content"

\* C12: on the id path one upstream GET is made and never repeated, and a
\* non-2xx status s of the upstream is answered with a JSON error response
\* whose status is s.
C12_CidErrorCarriesStatus ==
    HasCid =>
        /\ Len(getLog) <= 1
        /\ (GetDone /\ ~getUpstream[1].threw
              /\ getUpstream[1].status \notin 200..299) =>
              /\ getLog = <<PubchemRecordUrl>>
              /\ getResponse.status = getUpstream[1].status
              /\ getResponse.error # Undefined
              /\ getResponse.contentType = "application/json"

\* C13: on the descriptor path, when the primary endpoint answers non-2xx and
\* the alternate endpoint answers 200 with body X, the proxy answers 200 with
\* body X and the content type chemical/x-mdl-sdfile.
C13_AlternateRetry ==
    (GetDone /\ ~HasCid /\ HasSmiles /\ Len(getUpstream) = 2
        /\ ~getUpstream[1].threw /\ getUpstream[1].status \notin 200..299
        /\ ~getUpstream[2].threw /\ getUpstream[2].status = 200) =>
        /\ getResponse.status = 200
        /\ getResponse.body = getUpstream[2].body
        /\ getResponse.contentType = "chemical/x-mdl-sdfile"
        /\ getResponse.error = Undefined

\* smiles=CCO: the primary endpoint answered 404, the alternate 200
C13_Witness ==
    /\ GetDone
    /\ getParams.cid = Null
    /\ getParams.smiles = "CCO"
    /\ Len(getUpstream) = 2
    /\ getUpstream[1].status = 404
    /\ getUpstream[2].status = 200
    /\ getResponse.body = "mock-sdf-content"

CactusBase ==
    "https://cactus.nci.nih.gov/chemical/structure/"
        \o EncodeURIComponent(getParams.smiles)

\* C14: on the descriptor path at most two upstream requests are made: the
\* primary endpoint and, only after it did not succeed, the alternate
\* endpoint once and with the same get3d choice; a non-2xx status of the
\* alternate is answered with an error response of that status; after a
\* success of the primary the alternate is not asked.
C14_AtMostTwoRequests ==
    (~HasCid /\ HasSmiles) =>
        /\ Len(getLog) <= 2
        /\ Len(getLog) >= 1 =>
              getLog[1] = CactusBase \o "/sdf"
                  \o (IF getParams.get3d = "true" THEN "?get3d=true" ELSE "")
        /\ Len(getLog) = 2 =>
              /\ getUpstream[1].status \notin 200..299
              /\ getLog[2] = CactusBase \o "/file?format=sdf"
                    \o (IF getParams.get3d = "true" THEN "&get3d=true" ELSE "")
        /\ (GetDone /\ Len(getUpstream) = 2 /\ ~getUpstream[2].threw
              /\ getUpstream[2].status \notin 200..299) =>
              /\ getResponse.status = getUpstream[2].status
              /\ getResponse.error # Undefined
        /\ (GetDone /\ ~getUpstream[1].threw /\ getUpstream[1].status \in 200..299) =>
              Len(getLog) = 1

\* the CIR answer is 2xx with a text that is not blank and has no error marker
CirAcceptable ==
    /\ ~cirResponse.threw
    /\ cirResponse.status \in 200..299
    /\ Trim(cirResponse.body) # ""
    /\ ~Includes(cirResponse.body, "Error")

\* C17: the CIR step succeeds exactly when its answer is 2xx with a text that
\* is not blank and does not contain "Error"; then the result has source cir,
\* SMILES equal to the trimmed text and no cid, InChI, formula or weight;
\* otherwise the placeholder is returned.
C17_CirSuccessCriterion ==
    (PostDone /\ "cir" \in ProvidersInLog) =>
        /\ postResponse.status = 200
        /\ postResponse.body.name = Trim(postBody.name)
        /\ CirAcceptable <=> postResponse.body.source = "cir"
        /\ CirAcceptable =>
              /\ postResponse.body.smiles = Trim(cirResponse.body)
              /\ postResponse.body.cid = Undefined
              /\ postResponse.body.inchi = Undefined
              /\ postResponse.body.molecular_formula = Undefined
              /\ postResponse.body.molecular_weight = Undefined
        /\ ~CirAcceptable =>
              /\ postResponse.body.source = "mock"
              /\ postResponse.body.smiles = "CCO"

\* CIR answered with a text padded by whitespace and the step succeeded
C17_Witness ==
    /\ PostDone
    /\ cirResponse.status = 200
    /\ cirResponse.body = " C[C@H](N)C(=O)O \n"
    /\ postResponse.body.source = "cir"
    /\ postResponse.body.smiles = "C[C@H](N)C(=O)O"

\* the name is no catalog key but equals one when letter case is ignored
DiffersOnlyInCase(n) ==
    /\ n \notin DeclaredCatalogKeys
    /\ \E k \in DeclaredCatalogKeys : ToLowerCase(k) = ToLowerCase(n)

\* C19: a name that differs from a catalog key only in letter case does not
\* take the catalog branch: the provider steps run, starting with OPSIN, and
\* the result is not the catalog entry.
C19_CatalogCaseSensitive ==
    (PostDone /\ HasStringName /\ DiffersOnlyInCase(Trim(postBody.name))) =>
        /\ Len(postLog) >= 1
        /\ postLog[1].provider = "opsin"
        /\ opsinResponse # NotFetchedOpsin
        /\ postResponse.status = 200
        /\ postResponse.body.source \in {"opsin", "cir", "mock"}
        /\ postResponse.body.cid = Undefined
        /\ postResponse.body.name = Trim(postBody.name)

\* "metformin" went through OPSIN and CIR and ended with the placeholder
C19_Witness ==
    /\ PostDone
    /\ postBody.name = "metformin"
    /\ Len(postLog) = 2
    /\ postResponse.body.source = "mock"
    /\ postResponse.body.name = "metformin"

\* the body is not JSON, or its name is missing or not a string
MalformedBody ==
    ~postBody.parses \/ postBody.name \in {Undefined, Null, NonString}

\* C20: a resolve request whose body is not JSON or whose name is missing or
\* not a string is answered with HTTP 500 and an error body without a request
\* to a provider; every other resolve request is answered with HTTP 200.
C20_Only500ForMalformedBody ==
    PostDone =>
        IF MalformedBody
        THEN /\ postResponse.status = 500
             /\ postResponse.body.error # Undefined
             /\ postLog = <<>>
        ELSE postResponse.status = 200

C18_PaddingIrrelevant ==
    PostDone =>
        \A i \in DOMAIN completed :
            (/\ completed[i].body.name # postBody.name
             /\ Trim(completed[i].body.name) = Trim(postBody.name)) =>
                /\ completed[i].response = postResponse
                /\ completed[i].log = postLog
                /\ postResponse.status = 200 =>
                      postResponse.body.name = Trim(postBody.name)

\* "Aspirin" and then "  Aspirin " were answered with the catalog entry
C18_Witness ==
    /\ PostDone
    /\ completed # <<>>
    /\ completed[1].body.name = "Aspirin"
    /\ postBody.name = "  Aspirin "
    /\ postResponse.body.cid = "2244"
    /\ completed[1].response = postResponse

\* C16: in every interleaving of a resolve and a proxy request each response
\* is made of the request's own input and of the answers to its own fetches:
\* a proxy request with a parameter fetches from the upstream itself, also
\* when the same request was answered before, and returns the text of its
\* own last fetch; a resolve request returns what its own OPSIN or CIR fetch
\* gave, under its own name.
C16_Stateless ==
    /\ (GetDone /\ (HasCid \/ HasSmiles)) =>
          /\ Len(getLog) >= 1
          /\ Len(getUpstream) = Len(getLog)
          /\ getResponse.status = 200 <=>
                (/\ ~getUpstream[Len(getUpstream)].threw
                 /\ getUpstream[Len(getUpstream)].status \in 200..299)
          /\ getResponse.status = 200 =>
                getResponse.body = getUpstream[Len(getUpstream)].body
    /\ (PostDone /\ postResponse.status = 200) =>
          /\ postResponse.body.name = Trim(postBody.name)
          /\ postResponse.body.source = "opsin" =>
                /\ postLog # <<>>
                /\ postResponse.body.smiles = opsinResponse.body.smiles
          /\ postResponse.body.source = "cir" =>
                /\ Len(postLog) = 2
                /\ postResponse.body.smiles = Trim(cirResponse.body)
          /\ postResponse.body.source = "mock" => Len(postLog) = 2
          /\ postResponse.body.source = "pubchem" => postLog = <<>>

\* while a resolve request awaits CIR, a proxy request that was answered 200
\* before is repeated, fetches again and is answered 404 this time
C16_Witness ==
    /\ postPc = "cir"
    /\ GetDone
    /\ served # <<>>
    /\ served[1].params = getParams
    /\ served[1].response.status = 200
    /\ Len(getLog) >= 1
    /\ getResponse.status = 404

\* C21: on the descriptor path a primary request that fails at the transport
\* level (the fetch rejects) is followed by exactly one request to the
\* alternate endpoint before any error response is returned.
C21_TransportFailureRetries ==
    (GetDone /\ ~HasCid /\ HasSmiles /\ getUpstream # <<>>
        /\ getUpstream[1].threw /\ getUpstream[1].status = 0) =>
        /\ Len(getLog) = 2
        /\ getLog[2] = CactusBase \o "/file?format=sdf"
              \o (IF getParams.get3d = "true" THEN "&get3d=true" ELSE "")

\* the trimmed name of the request is none of the declared catalog keys
MissesCatalog == HasStringName /\ Trim(postBody.name) \notin DeclaredCatalogKeys

\* the lower-cased trimmed input
NormalizedInput == ToLowerCase(Trim(postBody.name))

\* C22: for every name that misses the catalog, the name sent to OPSIN and
\* to CIR is the lower-cased trimmed input, the same for both, and the name
\* field of the returned identity is the trimmed input in its original
\* casing.
C22_NormalizedNameSent ==
    (postPc # "idle" /\ MissesCatalog) =>
        /\ \A i \in DOMAIN postLog :
              /\ postLog[i].provider = "opsin" =>
                    postLog[i].url = opsinUrl(NormalizedInput)
              /\ postLog[i].provider = "cir" =>
                    postLog[i].url = cirUrl(NormalizedInput)
        /\ (PostDone /\ postResponse.status = 200) =>
              postResponse.body.name = Trim(postBody.name)

\* C25: every identity returned with HTTP 200 carries a structure reference
\* the proxy accepts: with a cid, sdf3d_url is the by-id form of that cid;
\* otherwise it is the by-descriptor form with get3d=true whose smiles
\* parameter is the URL-encoded, non-empty SMILES of the same identity.
C25_StructureRefAccepted ==
    (PostDone /\ postResponse.status = 200) =>
        IF postResponse.body.cid # Undefined
        THEN postResponse.body.sdf3d_url =
                "/api/molecule/sdf?cid=" \o postResponse.body.cid
        ELSE /\ postResponse.body.smiles \notin {Undefined, Null, ""}
             /\ postResponse.body.sdf3d_url =
                    "/api/molecule/sdf?smiles="
                        \o EncodeURIComponent(postResponse.body.smiles)
                        \o "&get3d=true"

\* C26: a resolution takes the catalog branch only when the trimmed name is
\* one of the seven declared catalog keys; every other non-empty name, the
\* inherited property names "constructor", "toString" and "__proto__"
\* included, goes on to the provider steps and ends with HTTP 200 and an
\* identity that has a source.
C26_CatalogOnlyDeclaredKeys ==
    (PostDone /\ HasStringName /\ Trim(postBody.name) # ""
        /\ Trim(postBody.name) \notin DeclaredCatalogKeys) =>
        /\ postResponse.status = 200
        /\ postResponse.body.source \in {"opsin", "cir", "mock"}
        /\ \A k \in DOMAIN knownCompounds : postResponse.body # knownCompounds[k]

\* an exception was raised while an upstream was contacted or read
UpstreamThrew == \E i \in DOMAIN getUpstream : getUpstream[i].threw

\* C27: the proxy handler always completes with a response; an exception
\* raised while an upstream is contacted or read, on either path and in the
\* primary or the alternate attempt, becomes HTTP 500 with a JSON error body.
C27_AlwaysAResponse ==
    GetDone =>
        /\ getResponse.status \in 200..599
        /\ UpstreamThrew =>
              /\ getResponse.status = 500
              /\ getResponse.contentType = "application/json"
              /\ getResponse.error = "Failed to fetch SDF data"
              /\ getResponse.body = Undefined

\* cid=4091: PubChem answered 200 and reading the text failed
C27_Witness ==
    /\ GetDone
    /\ getParams.cid = "4091"
    /\ Len(getUpstream) = 1
    /\ getUpstream[1].threw
    /\ getUpstream[1].status = 200
    /\ getResponse.status = 500

(***************************************************************************)
(* One-time Chart.js registration.  lib/chartjs-config.ts tests the flag,  *)
(* awaits import('chart.js'), registers and then sets the flag; the module *)
(* with the static import tests, registers and sets in one step.           *)
(***************************************************************************)
\* registerChartJS() of lib/chartjs-config.ts up to its await, or to its
\* return when the test of window and of the flag fails
RegisterCall(c) ==
    /\ chartCalls[c] = "idle"
    /\ chartCalls' =
          [chartCalls EXCEPT ![c] =
              IF window # Undefined /\ ~isRegistered["async"]
              THEN "importing" ELSE "returned"]
    /\ UNCHANGED <<window, isRegistered, registerCount>>

\* the dynamic import resolves: ChartJS.register(...); isRegistered = true
ImportResolves(c) ==
    /\ chartCalls[c] = "importing"
    /\ registerCount' = [registerCount EXCEPT !["async"] = @ + 1]
    /\ isRegistered' = [isRegistered EXCEPT !["async"] = TRUE]
    /\ chartCalls' = [chartCalls EXCEPT ![c] = "returned"]
    /\ window' = window

\* the dynamic import rejects: the call ends without a registration
ImportRejects(c) ==
    /\ chartCalls[c] = "importing"
    /\ chartCalls' = [chartCalls EXCEPT ![c] = "returned"]
    /\ UNCHANGED <<window, isRegistered, registerCount>>

\* the caller is done with the promise; another call can be made
CallSettled(c) ==
    /\ chartCalls[c] = "returned"
    /\ chartCalls' = [chartCalls EXCEPT ![c] = "idle"]
    /\ UNCHANGED <<window, isRegistered, registerCount>>

\* registerChartJS() of the module with the static import
RegisterSync ==
    /\ IF window # Undefined /\ ~isRegistered["sync"]
       THEN /\ registerCount' = [registerCount EXCEPT !["sync"] = @ + 1]
            /\ isRegistered' = [isRegistered EXCEPT !["sync"] = TRUE]
       ELSE UNCHANGED <<isRegistered, registerCount>>
    /\ UNCHANGED <<window, chartCalls>>

\* a process is a browser tab or the server
InitChart ==
    /\ PostIdle /\ GetIdle /\ HistIdle
    /\ window \in {Undefined, "Window"}
    /\ ChartIdle /\ TableIdle /\ HomeIdle /\ ModalIdle

NextChart ==
    /\ \/ \E c \in 1..MaxCalls : RegisterCall(c)
       \/ \E c \in 1..MaxCalls : ImportResolves(c)
       \/ \E c \in 1..MaxCalls : ImportRejects(c)
       \/ \E c \in 1..MaxCalls : CallSettled(c)
       \/ RegisterSync
    /\ UNCHANGED <<postVars, getVars, histVars, tableVars, homeVars, modalVars>>

SpecChart == InitChart /\ [][NextChart]_vars

\* C23: for any number of calls of registerChartJS in a browser, overlapping
\* ones included, ChartJS.register is executed at most once per process, and
\* isRegistered is true only after a registration has happened.
C23_RegisteredAtMostOnce ==
    \A m \in ChartModules :
        /\ registerCount[m] <= 1
        /\ isRegistered[m] => registerCount[m] >= 1

(***************************************************************************)
(* The compound library.  Numbers are in hundredths (riskScore 3.94 is     *)
(* 394); absent holds the optional fields an object does not have.         *)
(***************************************************************************)
MOCK_COMPOUNDS ==
    <<
    [id |-> "nefazodone", name |-> "Nefazodone", tc20 |-> 2926, tc50 |-> 7449,
     ec20 |-> 4310, ec50 |-> 6318, riskScore |-> 394, riskCategory |-> "Medium",
     molecularWeight |-> 47001, logp |-> 470, absent |-> {}],
    [id |-> "orfanglipron", name |-> "Orfanglipron", tc20 |-> 210, tc50 |-> 600,
     ec20 |-> 310, ec50 |-> 720, riskScore |-> 604, riskCategory |-> "High",
     molecularWeight |-> 38545, logp |-> 280, absent |-> {}],
    [id |-> "troglitazone", name |-> "Troglitazone", tc20 |-> 850, tc50 |-> 2230,
     ec20 |-> 1210, ec50 |-> 2870, riskScore |-> 720, riskCategory |-> "High",
     molecularWeight |-> 44154, logp |-> 520, absent |-> {}],
    [id |-> "ketoconazole", name |-> "Ketoconazole", tc20 |-> 1580, tc50 |-> 4210,
     ec20 |-> 1890, ec50 |-> 4530, riskScore |-> 410, riskCategory |-> "Medium",
     molecularWeight |-> 53143, logp |-> 435, absent |-> {}],
    [id |-> "diclofenac", name |-> "Diclofenac", tc20 |-> 2540, tc50 |-> 5890,
     ec20 |-> 2270, ec50 |-> 5210, riskScore |-> 380, riskCategory |-> "Medium",
     molecularWeight |-> 29615, logp |-> 451, absent |-> {}],
    [id |-> "amiodarone", name |-> "Amiodarone", tc20 |-> 1820, tc50 |-> 4870,
     ec20 |-> 2150, ec50 |-> 5130, riskScore |-> 430, riskCategory |-> "Medium",
     molecularWeight |-> 64531, logp |-> 760, absent |-> {}],
    [id |-> "sunitinib", name |-> "Sunitinib", tc20 |-> 443, tc50 |-> 1234,
     ec20 |-> 608, ec50 |-> 1373, riskScore |-> 122, riskCategory |-> "Low",
     molecularWeight |-> 39847, logp |-> 290, absent |-> {}],
    [id |-> "lotiglipron", name |-> "Lotiglipron", tc20 |-> 9000, tc50 |-> 12000,
     ec20 |-> 8500, ec50 |-> 11500, riskScore |-> 13, riskCategory |-> "Low",
     molecularWeight |-> 35242, logp |-> 210, absent |-> {}],
    [id |-> "metformin", name |-> "Metformin", tc20 |-> 15000, tc50 |-> 28000,
     ec20 |-> 14500, ec50 |-> 27500, riskScore |-> 8, riskCategory |-> "Low",
     molecularWeight |-> 12916, logp |-> -264, absent |-> {}],
    [id |-> "aspirin", name |-> "Aspirin", tc20 |-> 12500, tc50 |-> 24500,
     ec20 |-> 11800, ec50 |-> 23800, riskScore |-> 25, riskCategory |-> "Low",
     molecularWeight |-> 18016, logp |-> 119, absent |-> {}],
    [id |-> "ibuprofen", name |-> "Ibuprofen", tc20 |-> 8530, tc50 |-> 16570,
     ec20 |-> 7890, ec50 |-> 15820, riskScore |-> 45, riskCategory |-> "Low",
     molecularWeight |-> 20628, logp |-> 397, absent |-> {}],
    [id |-> "acetaminophen", name |-> "Acetaminophen", tc20 |-> 9520, tc50 |-> 18540,
     ec20 |-> 8870, ec50 |-> 17890, riskScore |-> 35, riskCategory |-> "Low",
     molecularWeight |-> 15116, logp |-> 46, absent |-> {}],
    [id |-> "warfarin", name |-> "Warfarin", tc20 |-> 4580, tc50 |-> 8930,
     ec20 |-> 4210, ec50 |-> 8570, riskScore |-> 210, riskCategory |-> "Low",
     molecularWeight |-> 30833, logp |-> 270, absent |-> {}],
    [id |-> "simvastatin", name |-> "Simvastatin", tc20 |-> 6540, tc50 |-> 12890,
     ec20 |-> 6120, ec50 |-> 12430, riskScore |-> 180, riskCategory |-> "Low",
     molecularWeight |-> 41857, logp |-> 468, absent |-> {}],
    [id |-> "atorvastatin", name |-> "Atorvastatin", tc20 |-> 7210, tc50 |-> 14280,
     ec20 |-> 6850, ec50 |-> 13820, riskScore |-> 150, riskCategory |-> "Low",
     molecularWeight |-> 55864, logp |-> 570, absent |-> {}],
    [id |-> "lisinopril", name |-> "Lisinopril", tc20 |-> 11050, tc50 |-> 21530,
     ec20 |-> 10580, ec50 |-> 20870, riskScore |-> 18, riskCategory |-> "Low",
     molecularWeight |-> 40549, logp |-> -122, absent |-> {}],
    [id |-> "omeprazole", name |-> "Omeprazole", tc20 |-> 5570, tc50 |-> 10840,
     ec20 |-> 5230, ec50 |-> 10490, riskScore |-> 230, riskCategory |-> "Low",
     molecularWeight |-> 34542, logp |-> 223, absent |-> {}],
    [id |-> "fluoxetine", name |-> "Fluoxetine", tc20 |-> 3890, tc50 |-> 7620,
     ec20 |-> 3540, ec50 |-> 7280, riskScore |-> 280, riskCategory |-> "Medium",
     molecularWeight |-> 30933, logp |-> 405, absent |-> {}],
    [id |-> "sertraline", name |-> "Sertraline", tc20 |-> 4230, tc50 |-> 8270,
     ec20 |-> 3910, ec50 |-> 7850, riskScore |-> 250, riskCategory |-> "Medium",
     molecularWeight |-> 30623, logp |-> 510, absent |-> {}],
    [id |-> "compound_x1", name |-> "AXM-2847", tc20 |-> 3250, tc50 |-> 7890,
     ec20 |-> 2870, ec50 |-> 7120, riskScore |-> 320, riskCategory |-> "Medium",
     molecularWeight |-> 42567, logp |-> 380, absent |-> {}],
    [id |-> "compound_x2", name |-> "GFX-1205", tc20 |-> 15680, tc50 |-> 29840,
     ec20 |-> 14230, ec50 |-> 28570, riskScore |-> 9, riskCategory |-> "Low",
     molecularWeight |-> 28734, logp |-> 180, absent |-> {}]
    >>

(***************************************************************************)
(* CompoundTable: sort state and the rows it shows                         *)
(***************************************************************************)
\* the fields that have a sortable header
SortFields ==
    {"name", "tc20", "tc50", "ec20", "ec50", "molecularWeight", "logp", "riskScore"}

\* UTF-16 code units in ascending order, as far as names use them
CodeUnitOrder ==
    " -0123456789ABCDEFGHIJKLMNOPQRSTUVWXYZ_abcdefghijklmnopqrstuvwxyz"

CodeUnit(c) == CHOOSE i \in 1..Len(CodeUnitOrder) : CharAt(CodeUnitOrder, i) = c

\* s < t on strings: the first code unit that differs decides, a proper
\* prefix is smaller
StringLess(s, t) ==
    \E k \in 1..(Len(t)) :
        /\ k <= Len(s) + 1
        /\ SubSeq(s, 1, k - 1) = SubSeq(t, 1, k - 1)
        /\ \/ k = Len(s) + 1
           \/ CodeUnit(CharAt(s, k)) < CodeUnit(CharAt(t, k))

\* ValueLess that compares the names as they are written
ValueLess_CaseSensitive(a, b, field) ==
    IF field = "name"
    THEN StringLess(a.name, b.name)
    ELSE (IF field \in a.absent THEN 0 ELSE a[field])
            < (IF field \in b.absent THEN 0 ELSE b[field])

\* aVal < bVal after the comparator's preparation: a missing value is 0, a
\* string is lower-cased
ValueLess(a, b, field) ==
    IF field = "name"
    THEN StringLess(ToLowerCase(a.name), ToLowerCase(b.name))
    ELSE (IF field \in a.absent THEN 0 ELSE a[field])
            < (IF field \in b.absent THEN 0 ELSE b[field])

\* the comparator passed to sort
CompareCompounds(a, b, field, direction) ==
    IF field = Null THEN 0
    ELSE IF ValueLess(a, b, field) THEN (IF direction = "asc" THEN -1 ELSE 1)
    ELSE IF ValueLess(b, a, field) THEN (IF direction = "asc" THEN 1 ELSE -1)
    ELSE 0

\* x put behind every element that does not compare greater than it
InsertStable(sorted, x, field, direction) ==
    LET greater == {i \in DOMAIN sorted :
                        CompareCompounds(sorted[i], x, field, direction) > 0}
        at == IF greater = {} THEN Len(sorted) + 1
              ELSE CHOOSE i \in greater : \A j \in greater : i <= j
    IN SubSeq(sorted, 1, at - 1) \o <<x>> \o SubSeq(sorted, at, Len(sorted))

\* Array.prototype.sort is stable; [...compounds] is a copy
RECURSIVE StableSort(_, _, _)
StableSort(list, field, direction) ==
    IF list = <<>> THEN <<>>
    ELSE InsertStable(StableSort(SubSeq(list, 1, Len(list) - 1), field, direction),
                      list[Len(list)], field, direction)

\* the rows of the table, in the order shown
sortedCompounds == StableSort(tableCompounds, sortField, sortDirection)

\* a click on the header of a field
handleSort(field) ==
    /\ IF sortField = field
       THEN /\ sortDirection' = (IF sortDirection = "asc" THEN "desc" ELSE "asc")
            /\ sortField' = sortField
       ELSE /\ sortField' = field
            /\ sortDirection' = "desc"
    /\ tableCompounds' = tableCompounds

\* number of rows of the tables that are sorted
MaxRows == 3

\* compounds a table is given: two of the library, one without the optional
\* fields and with a lower-case name, one with capitals and digits
RowCompounds ==
    {MOCK_COMPOUNDS[9], MOCK_COMPOUNDS[10], MOCK_COMPOUNDS[21],
     [id |-> "aspirin-2", name |-> "aspirin", tc20 |-> 12500, tc50 |-> 20000,
      ec20 |-> 8000, ec50 |-> 12000, riskScore |-> 25, riskCategory |-> "Low",
      molecularWeight |-> 0, logp |-> 0,
      absent |-> {"molecularWeight", "logp"}]}

\* the values of the compounds prop
TableProps ==
    UNION {{p \in [1..n -> RowCompounds] : \A i, j \in 1..n : p[i] = p[j] => i = j} :
            n \in 0..MaxRows}

InitTable ==
    /\ PostIdle /\ GetIdle /\ HistIdle
    /\ window = "Window"
    /\ ChartIdle /\ HomeIdle /\ ModalIdle
    /\ tableCompounds \in TableProps
    /\ sortField = "riskScore"
    /\ sortDirection = "desc"

NextTable ==
    /\ \E field \in SortFields : handleSort(field)
    /\ UNCHANGED <<postVars, getVars, histVars, chartVars, homeVars, modalVars>>

SpecTable == InitTable /\ [][NextTable]_vars

\* the value a row is ordered by: a missing value counts as 0
NumericKey(c) == IF sortField \in c.absent THEN 0 ELSE c[sortField]

\* row a has to stand before row b in ascending order
KeyBefore(a, b) ==
    IF sortField = "name"
    THEN StringLess(ToLowerCase(a.name), ToLowerCase(b.name))
    ELSE NumericKey(a) < NumericKey(b)

\* the rows shown are the compounds prop, rearranged, in the order of the
\* sort field and direction
RowsAreSortedProp ==
    LET rows == sortedCompounds IN
    /\ Len(rows) = Len(tableCompounds)
    /\ \A c \in RowCompounds :
          Cardinality({i \in DOMAIN rows : rows[i] = c})
              = Cardinality({i \in DOMAIN tableCompounds : tableCompounds[i] = c})
    /\ \A i, j \in DOMAIN rows :
          i < j => IF sortDirection = "asc"
                   THEN ~KeyBefore(rows[j], rows[i])
                   ELSE ~KeyBefore(rows[i], rows[j])

\* what a click on the header of field does to the sort state
ClickEffect(field) ==
    IF sortField = field
    THEN sortField' = field /\ sortDirection' # sortDirection
    ELSE sortField' = field /\ sortDirection' = "desc"

\* C24: the table starts sorted by riskScore, descending; a click on the
\* header of the sort field flips the direction and keeps the field, a click
\* on another header makes it the sort field, descending; the sort field is
\* never null, the compounds prop is never reordered, and the rows shown are
\* a permutation of the prop ordered by the sort field in the sort direction,
\* a missing value counting as 0 and strings compared without regard to case.
C24_SortState ==
    /\ (sortField = "riskScore" /\ sortDirection = "desc")
    /\ [](/\ sortField \in SortFields
          /\ sortDirection \in {"asc", "desc"}
          /\ RowsAreSortedProp)
    /\ [][/\ \A field \in SortFields : handleSort(field) => ClickEffect(field)
          /\ tableCompounds' = tableCompounds]_vars

\* sorted by logp, ascending: Metformin (-2.64), the compound without a logp
\* (counted as 0), Aspirin (1.19), given in another order
C24_Witness ==
    /\ sortField = "logp"
    /\ sortDirection = "asc"
    /\ tableCompounds = <<MOCK_COMPOUNDS[10], MOCK_COMPOUNDS[9],
                          CHOOSE c \in RowCompounds : c.absent # {}>>
    /\ sortedCompounds[1].name = "Metformin"
    /\ sortedCompounds[2].name = "aspirin"
    /\ sortedCompounds[3].name = "Aspirin"

(***************************************************************************)
(* EnhancedReal3DModal: an effect on the compound prop posts the name to   *)
(* /api/molecule/resolve and stores the identity that comes back.          *)
(***************************************************************************)
\* names of the compounds the modal is opened for
ModalCompounds == {"Aspirin", "Sunitinib"}

\* number of resolve requests of the modal that can be unsettled
MaxRequests == 3

\* what fetch('/api/molecule/resolve') for a name can settle with: the fetch
\* rejects, or the route answers as POST does for that name
ResolveAnswers(n) ==
    {[threw |-> TRUE, response |-> NoResponse],
     [threw |-> FALSE, response |-> ResolveError]} \cup
    {[threw |-> FALSE, response |-> r] :
        r \in IF KnownLookup(Trim(n)).kind # "undefined"
              THEN {CatalogResponse(KnownLookup(Trim(n)))}
              ELSE {JsonOk(CirResult(Trim(n), "CCO\n")), JsonOk(mockResult(Trim(n)))}}

\* fetchMoleculeData up to its await: setLoading(true) and the request
fetchMoleculeData(n) ==
    /\ modalLoading' = TRUE
    /\ resolveRequests' = Append(resolveRequests, n)
    /\ moleculeData' = moleculeData

\* the modal is mounted for a compound; the effect runs
ModalMount(n) ==
    /\ compound = Null
    /\ compound' = n
    /\ fetchMoleculeData(n)

\* the compound prop changes; the effect runs again
ModalCompoundChange(n) ==
    /\ compound # Null
    /\ compound # n
    /\ Len(resolveRequests) < MaxRequests
    /\ compound' = n
    /\ fetchMoleculeData(n)

\* a request settles, in any order: the rest of fetchMoleculeData
ModalResolveSettles(i, answer) ==
    /\ i \in DOMAIN resolveRequests
    /\ answer \in ResolveAnswers(resolveRequests[i])
    /\ resolveRequests' =
          SubSeq(resolveRequests, 1, i - 1)
              \o SubSeq(resolveRequests, i + 1, Len(resolveRequests))
    /\ moleculeData' =
          IF ~answer.threw /\ IsOk(answer.response.status)
          THEN {answer.response.body}
          ELSE moleculeData
    /\ modalLoading' = FALSE
    /\ compound' = compound

InitModal ==
    /\ PostIdle /\ GetIdle /\ HistIdle
    /\ window = "Window"
    /\ ChartIdle /\ TableIdle /\ HomeIdle /\ ModalIdle

NextModal ==
    /\ \/ \E n \in ModalCompounds : ModalMount(n)
       \/ \E n \in ModalCompounds : ModalCompoundChange(n)
       \/ \E i \in 1..MaxRequests :
             \E answer \in UNION {ResolveAnswers(n) : n \in ModalCompounds} :
                 ModalResolveSettles(i, answer)
    /\ UNCHANGED <<postVars, getVars, histVars, chartVars, tableVars, homeVars>>

SpecModal == InitModal /\ [][NextModal]_vars

\* C28: the modal shows the identity of the current compound: once
\* moleculeData is the response for the compound the prop holds, it stays a
\* response for that compound as long as the prop does not change; a late
\* response for an earlier compound never overwrites it, in whatever order
\* the responses arrive.
C28_LatestCompoundShown ==
    [][((\E data \in moleculeData : data.name = compound) /\ compound' = compound)
          => \A data \in moleculeData' : data.name = compound']_vars

(***************************************************************************)
(* Home: the compound library, the filters, the view and the selection     *)
(***************************************************************************)
RiskCategories == {"Low", "Medium", "High"}

\* texts typed into the search box
SearchTexts == {"", "met", "ASP"}

\* the category the filter derives from a risk score; 3.3 and 6.6 in
\* hundredths
DerivedCategory(riskScore) ==
    IF riskScore < 330 THEN "Low"
    ELSE IF riskScore < 660 THEN "Medium"
    ELSE "High"

\* filters.riskCategories.includes(cat)
IncludesCategory(categories, cat) ==
    \E i \in DOMAIN categories : categories[i] = cat

\* the predicate of compounds.filter
MatchesFilters(c) ==
    /\ IncludesCategory(filters.riskCategories, DerivedCategory(c.riskScore))
    /\ \/ filters.searchText = ""
       \/ Includes(ToLowerCase(c.name), ToLowerCase(filters.searchText))

RECURSIVE FilterCompounds(_)
FilterCompounds(list) ==
    IF list = <<>> THEN <<>>
    ELSE (IF MatchesFilters(list[1]) THEN <<list[1]>> ELSE <<>>)
            \o FilterCompounds(SubSeq(list, 2, Len(list)))

\* the compounds handed to the table and to the dashboard
filteredCompounds == FilterCompounds(compounds)

\* fetchCompounds() resolves: setCompounds(data), setLoading(false)
LoadCompounds ==
    /\ loading
    /\ compounds' = MOCK_COMPOUNDS
    /\ loading' = FALSE
    /\ UNCHANGED <<selectedCompound, filters, currentView, sidebarOpen>>

\* setFilters that closes the sidebar of a compound the filters hide
setFilters_ClosesHidden(next) ==
    /\ ~loading
    /\ filters' = next
    /\ IF \E i \in DOMAIN compounds :
             /\ compounds[i].id = selectedCompound
             /\ \/ ~IncludesCategory(next.riskCategories,
                                     DerivedCategory(compounds[i].riskScore))
                \/ /\ next.searchText # ""
                   /\ ~Includes(ToLowerCase(compounds[i].name),
                                ToLowerCase(next.searchText))
       THEN selectedCompound' = Null /\ sidebarOpen' = FALSE
       ELSE UNCHANGED <<selectedCompound, sidebarOpen>>
    /\ UNCHANGED <<compounds, currentView, loading>>

\* onChange of FilterBar
setFilters(next) ==
    /\ ~loading
    /\ filters' = next
    /\ UNCHANGED <<compounds, selectedCompound, currentView, loading, sidebarOpen>>

\* a click on a category button of FilterBar
toggleRisk(cat) ==
    setFilters([filters EXCEPT !.riskCategories =
        IF IncludesCategory(filters.riskCategories, cat)
        THEN SelectSeq(filters.riskCategories, LAMBDA c : c # cat)
        ELSE Append(filters.riskCategories, cat)])

clearAllCategories == setFilters([filters EXCEPT !.riskCategories = <<>>])

showAllCategories ==
    setFilters([filters EXCEPT !.riskCategories = <<"Low", "Medium", "High">>])

\* typing into the search box
SearchInput(text) == setFilters([filters EXCEPT !.searchText = text])

\* the view buttons of the navigation bar
setCurrentView(view) ==
    /\ ~loading
    /\ currentView' = view
    /\ UNCHANGED <<compounds, selectedCompound, filters, loading, sidebarOpen>>

\* a click on a row of the table or on a bar of the dashboard; the selected
\* compound is held by its id
handleCompoundSelect(c) ==
    /\ ~loading
    /\ \E i \in DOMAIN compounds : compounds[i] = c
    /\ MatchesFilters(c)
    /\ selectedCompound' = c.id
    /\ sidebarOpen' = TRUE
    /\ UNCHANGED <<compounds, filters, currentView, loading>>

\* the close button of the sidebar
handleSidebarClose ==
    /\ sidebarOpen
    /\ sidebarOpen' = FALSE
    /\ UNCHANGED <<compounds, selectedCompound, filters, currentView, loading>>

\* the rows and bars that are clicked: Nefazodone, Orfanglipron,
\* Troglitazone and Metformin
ClickedCompounds == {MOCK_COMPOUNDS[i] : i \in {1, 2, 3, 9}}

InitHome ==
    /\ PostIdle /\ GetIdle /\ HistIdle
    /\ window = "Window"
    /\ ChartIdle /\ TableIdle /\ HomeIdle /\ ModalIdle

NextHome ==
    /\ \/ LoadCompounds
       \/ \E cat \in RiskCategories : toggleRisk(cat)
       \/ clearAllCategories
       \/ showAllCategories
       \/ \E text \in SearchTexts : SearchInput(text)
       \/ \E view \in {"table", "dashboard"} : setCurrentView(view)
       \/ \E c \in ClickedCompounds : handleCompoundSelect(c)
       \/ handleSidebarClose
    /\ UNCHANGED <<postVars, getVars, histVars, chartVars, tableVars, modalVars>>

SpecHome == InitHome /\ [][NextHome]_vars

\* the ids of the rows shown
ShownIds == {filteredCompounds[i].id : i \in DOMAIN filteredCompounds}

\* C29: for every compound of MOCK_COMPOUNDS, which is the library the page
\* loads, the stored riskCategory is the category the filter derives from
\* its riskScore; hence, when exactly one
\* category is selected, every row shown carries the badge of that category
\* and every compound with that badge is shown.
C29_BadgeMatchesFilter ==
    /\ \A i \in DOMAIN compounds :
          compounds[i].riskCategory = DerivedCategory(compounds[i].riskScore)
    /\ (~loading /\ Len(filters.riskCategories) = 1 /\ filters.searchText = "") =>
          ShownIds = {compounds[i].id : i \in
                        {j \in DOMAIN compounds :
                            compounds[j].riskCategory = filters.riskCategories[1]}}

\* C30: the sidebar is open only while a compound is selected; selecting a
\* compound makes it the selected one and opens the sidebar; closing the
\* sidebar keeps the selection; a change of the filters or of the view
\* changes neither the selection nor the sidebar, also when the selected
\* compound is no longer among the filtered ones.
C30_SelectionState ==
    /\ [](sidebarOpen => selectedCompound # Null)
    /\ [][/\ \A c \in ClickedCompounds :
                handleCompoundSelect(c) => (selectedCompound' = c.id /\ sidebarOpen')
          /\ (sidebarOpen /\ ~sidebarOpen') => selectedCompound' = selectedCompound
          /\ (filters' # filters \/ currentView' # currentView) =>
                (selectedCompound' = selectedCompound /\ sidebarOpen' = sidebarOpen)
         ]_vars

\* Troglitazone is selected and its sidebar open while only the Low category
\* is shown, in the dashboard view
C30_Witness ==
    /\ sidebarOpen
    /\ selectedCompound = "troglitazone"
    /\ filters.riskCategories = <<"Low">>
    /\ currentView = "dashboard"
    /\ "troglitazone" \notin ShownIds

====
